---- MODULE Spec2Model ----
(***************************************************************************)
(* Retrieval consolidation of grimbano/ucm-tfm-grupo-4:                    *)
(*   - the context window arithmetic     (context_enricher.py)             *)
(*   - the stitching of overlapping chunks (context_enricher.py)           *)
(*   - the flat merge of multi-query results (base.py)                     *)
(* Each operation is a call: its arguments are drawn in the initial state, *)
(* the action runs the method body and stores what it returns.             *)
(***************************************************************************)
EXTENDS Integers, Sequences, FiniteSets, TLC

VARIABLES
    pc,                   \* which call is in progress / has returned
    md_min, md_max,       \* _get_chunk_limits arguments
    md_total, window_size,
    limits,               \* what _get_chunk_limits returned / raised
    docs,                 \* _merge_overlap_chunks argument (result of self.get)
    stitched,             \* what _merge_overlap_chunks returned
    multi_query_results,  \* _merge_unique_documents argument
    unique_documents,     \* what _merge_unique_documents returned
    flat_input,           \* _merge_multiquery_search_results argument
    flat_result,          \* what it returned / raised
    hier_input,           \* _merge_search_results argument
    hier_result,          \* what _merge_search_results returned
    is_single_query,      \* search / enriched_context_search: queries is a str
    merge_results,        \* their merge_results argument
    context_window_size,  \* enriched_context_search argument
    backend_results,      \* what the vector store finds, per query
    search_return,        \* what search returned
    search_results,       \* enriched_context_search local, from line 164 on
    query_index,          \* the query_results the loop of line 173 is at
    doc_index,            \* the document the loop of line 174 is at
    processed_results_dict, \* the group accumulators of line 166
    fetches,              \* the range fetches issued at line 203
    multi_query_output,   \* enriched_context_search local of line 172
    enriched_return,      \* what enriched_context_search returned
    found_tables,         \* hierarchical_similarity_search: the table hits
                          \* of each query, each with its column hits
    hierarchical_return,  \* what hierarchical_similarity_search returned
    prev_chunk_content,   \* _find_overlap arguments (line 342)
    current_chunk_content,
    overlap_bound,
    overlap_size,         \* what _find_overlap returned
    tables_collection,    \* the documents stored in the tables collection
    columns_collection,   \* the documents stored in the columns collection
    upsert_input,         \* upsert_hierarchical_data argument: (tables, columns)
    upsert_return,        \* what upsert_hierarchical_data returned / raised
    validator_node,       \* query validator graph: the node to run next
    max_retries,          \* get_query_validator_graph argument
    retries,              \* graph state key 'retries' (None while unset)
    valid_query_execution,      \* graph state key (None while unset)
    query_validation_error_msg, \* graph state key (None while unset)
    db,                   \* graph state key 'db' (None while unset / failed)
    grader_invocations,   \* coherence_grader.invoke calls so far (line 138)
    query_executions,     \* db['sql_db']._execute calls so far (line 163)
    chunk_node,           \* chunk processing graph: the node to run next
    max_iterations,       \* GradeChunkSummaryGenerationEdge.max_iterations
    generate_iterations,  \* graph state key (None while unset)
    chunk_summary,        \* graph state key: the last summary generated
    generation,           \* graph state key written by set_output_ko
    summarize_runs,       \* summarize_chunk_node calls so far
    hallucination_gradings,     \* hallucination_grader.invoke calls so far
    answer_gradings,      \* answer_grader.invoke calls so far
    summary_decision      \* what the summary edge last returned, and on
                          \* which grader answers

windowVars == <<md_min, md_max, md_total, window_size, limits>>

stitchVars == <<docs, stitched>>

mergeVars == <<multi_query_results, unique_documents>>

flatVars == <<flat_input, flat_result>>

hierVars == <<hier_input, hier_result>>

searchArgs == <<is_single_query, merge_results, context_window_size,
                backend_results>>

enrichVars == <<search_results, query_index, doc_index,
                processed_results_dict, fetches, multi_query_output,
                enriched_return>>

hsearchVars == <<found_tables, hierarchical_return>>

overlapVars == <<prev_chunk_content, current_chunk_content, overlap_bound,
                 overlap_size>>

oldVars == <<windowVars, stitchVars, mergeVars, flatVars, hierVars,
             searchArgs, search_return, enrichVars>>

upsertVars == <<tables_collection, columns_collection, upsert_input,
                upsert_return>>

validatorVars == <<validator_node, max_retries, retries,
                   valid_query_execution, query_validation_error_msg, db,
                   grader_invocations, query_executions>>

chunkVars == <<chunk_node, max_iterations, generate_iterations, chunk_summary,
               generation, summarize_runs, hallucination_gradings,
               answer_gradings, summary_decision>>

graphVars == <<validatorVars, chunkVars>>

restVars == <<hsearchVars, overlapVars, upsertVars, graphVars>>

vars == <<pc, windowVars, stitchVars, mergeVars, flatVars, hierVars,
          searchArgs, search_return, enrichVars, restVars>>

\* ------------------------------------------------------------------ bounds
MaxPosition == 9
MaxWindow == 6
MaxChunks == 2
MaxTextLen == 2
MaxOverlap == 1
MaxQueries == 2
MaxResults == 2
MaxHits == 3
MaxRows == 4
MaxDocs == 2

\* ----------------------------------------------------------------- helpers
Min2(a, b) == IF a <= b THEN a ELSE b

\* Python's abs()
abs(x) == IF x < 0 THEN -x ELSE x

\* ------------------------------------------------------ _get_chunk_limits
\* A returned (start, end) tuple; an exception would be kind = "error".
Range(s, e) == [kind |-> "range", start |-> s, end |-> e]

NoLimits == [kind |-> "none", start |-> 0, end |-> 0]

\* Variant: the start is clamped but its deficit is not moved to the end.
shift_low_clamp_only(start_limit, end_limit) ==
    IF start_limit < 0
    THEN <<0, end_limit>>
    ELSE <<start_limit, end_limit>>

\* lines 278-280: a negative start moves its deficit onto the end
shift_low(start_limit, end_limit) ==
    IF start_limit < 0
    THEN <<0, end_limit + abs(start_limit)>>
    ELSE <<start_limit, end_limit>>

\* Variant: the end is clamped but its excess is not moved to the start.
shift_high_clamp_only(start_limit, end_limit, total) ==
    IF end_limit > total
    THEN <<start_limit, total>>
    ELSE <<start_limit, end_limit>>

\* lines 282-286: an end beyond md_total moves its excess onto the start
shift_high(start_limit, end_limit, total) ==
    IF end_limit > total
    THEN <<IF start_limit - (end_limit - total) < 0
           THEN 0
           ELSE start_limit - (end_limit - total),
           total>>
    ELSE <<start_limit, end_limit>>

\* Variant: the comparison of line 268 with its operands swapped.
window_covered_swapped(mn, mx, size) == (mx - mn + 1) <= size

\* lines 267-269: the retrieved range already spans the window
window_covered(mn, mx, size) == (mx - mn + 1) >= size

\* Variant: the odd remainder goes before the retrieved range, not after it.
_get_chunk_limits_odd_before(mn, mx, total, size) ==
    IF window_covered(mn, mx, size)
    THEN Range(mn, mx)
    ELSE LET remaining_needed == size - (mx - mn + 1)
             add_after == remaining_needed \div 2
             add_before == remaining_needed - add_after
             low == shift_low(mn - add_before, mx + add_after)
             high == shift_high(low[1], low[2], total)
         IN  Range(high[1], high[2])

_get_chunk_limits(mn, mx, total, size) ==
    IF window_covered(mn, mx, size)
    THEN Range(mn, mx)
    ELSE LET remaining_needed == size - (mx - mn + 1)
             add_before == remaining_needed \div 2
             add_after == remaining_needed - add_before
             low == shift_low(mn - add_before, mx + add_after)
             high == shift_high(low[1], low[2], total)
         IN  Range(high[1], high[2])

\* Arguments of the examples of the specification that lie outside the grid.
ExampleWindows ==
    { <<5, 5, 20, 4>>, <<2, 6, 20, 3>> }

WindowInputs ==
    { <<a, b, t, w>> : a \in 0..MaxPosition, b \in 0..MaxPosition,
                       t \in 0..(MaxPosition + 1), w \in 0..MaxWindow }
    \cup ExampleWindows

\* Python None: document.metadata.get(...) of an absent key, state.get(...)
\* of an unset graph state key
None == -1

IdleWindow ==
    /\ md_min = 0 /\ md_max = 0 /\ md_total = 0 /\ window_size = 0
    /\ limits = NoLimits

IdleStitch ==
    /\ docs = <<>>
    /\ stitched = <<>>

IdleMerge ==
    /\ multi_query_results = <<>>
    /\ unique_documents = <<>>

IdleFlat ==
    /\ flat_input = <<>>
    /\ flat_result = [kind |-> "none", items |-> <<>>, error |-> "none"]

IdleHier ==
    /\ hier_input = <<>>
    /\ hier_result = <<>>

IdleSearch ==
    /\ is_single_query = FALSE
    /\ merge_results = FALSE
    /\ context_window_size = 0
    /\ backend_results = <<>>
    /\ search_return = [kind |-> "none", value |-> <<>>]
    /\ search_results = <<>>
    /\ query_index = 0
    /\ doc_index = 0
    /\ processed_results_dict = <<>>
    /\ fetches = <<>>
    /\ multi_query_output = <<>>
    /\ enriched_return = [kind |-> "none", value |-> <<>>]

IdleHSearch ==
    /\ found_tables = <<>>
    /\ hierarchical_return = [kind |-> "none", value |-> <<>>]

IdleOverlap ==
    /\ prev_chunk_content = <<>>
    /\ current_chunk_content = <<>>
    /\ overlap_bound = 0
    /\ overlap_size = 0

IdleUpsert ==
    /\ tables_collection = {}
    /\ columns_collection = {}
    /\ upsert_input = <<>>
    /\ upsert_return = [kind |-> "none", error |-> "none",
                        deleted |-> <<{}, {}>>, added |-> <<{}, {}>>]

IdleValidator ==
    /\ validator_node = "idle"
    /\ max_retries = 0
    /\ retries = None
    /\ valid_query_execution = "None"
    /\ query_validation_error_msg = "None"
    /\ db = "None"
    /\ grader_invocations = 0
    /\ query_executions = 0

\* No summary edge has been evaluated yet.
NoDecision == [next |-> "none", grounded |-> "not asked",
               addresses |-> "not asked"]

IdleChunk ==
    /\ chunk_node = "idle"
    /\ max_iterations = 0
    /\ generate_iterations = None
    /\ chunk_summary = <<>>
    /\ generation = <<>>
    /\ summarize_runs = 0
    /\ hallucination_gradings = 0
    /\ answer_gradings = 0
    /\ summary_decision = NoDecision

IdleGraphs ==
    /\ IdleValidator
    /\ IdleChunk

IdleRest ==
    /\ IdleHSearch
    /\ IdleOverlap
    /\ IdleUpsert
    /\ IdleGraphs

InitWindow ==
    /\ pc = "window_call"
    /\ \E i \in WindowInputs :
          /\ md_min = i[1] /\ md_max = i[2]
          /\ md_total = i[3] /\ window_size = i[4]
    /\ limits = NoLimits
    /\ IdleStitch
    /\ IdleMerge
    /\ IdleFlat
    /\ IdleHier
    /\ IdleSearch
    /\ IdleRest

\* enriched_context_search lines 192-197: the call and its return
GetChunkLimits ==
    /\ pc = "window_call"
    /\ limits' = _get_chunk_limits(md_min, md_max, md_total, window_size)
    /\ pc' = "window_return"
    /\ UNCHANGED <<md_min, md_max, md_total, window_size,
                   stitchVars, mergeVars, flatVars, hierVars,
                   searchArgs, search_return, enrichVars, restVars>>

NextWindow == GetChunkLimits

SpecWindow == InitWindow /\ [][NextWindow]_vars

\* ------------------------------------------------- window: the claims
WindowReturned == pc = "window_return"

WindowArgs == <<md_min, md_max, md_total, window_size>>

\* md_total is the number of chunks of the group: indices 0..md_total-1
ValidWindowArgs ==
    /\ 0 <= md_min /\ md_min <= md_max /\ md_max <= md_total - 1
    /\ window_size >= 1

Covered == md_max - md_min + 1

Before == (window_size - Covered) \div 2

After == (window_size - Covered) - Before

Max0(x) == IF x < 0 THEN 0 ELSE x

\* C1: for valid arguments the returned range contains [md_min, md_max] and
\* names no index outside 0..md_total-1.
C1_WindowInsideGroup ==
    (WindowReturned /\ ValidWindowArgs) =>
        /\ limits.kind = "range"
        /\ 0 <= limits.start /\ limits.start <= md_min
        /\ md_max <= limits.end /\ limits.end <= md_total - 1

\* C2: for valid arguments, when only the high end overruns the last index md_total-1, the excess
\* moves to the start and the end is the last index; (8, 9, 10, 5) gives (5, 9).
C2_HighClamp ==
    (/\ WindowReturned
     /\ ValidWindowArgs
     /\ Covered < window_size
     /\ md_min - Before >= 0
     /\ md_max + After > md_total - 1) =>
        limits = Range(Max0(md_min - Before - (md_max + After - (md_total - 1))),
                       md_total - 1)

\* C3: when the tentative start is negative and the shifted end stays within
\* the last index, the result is (0, shifted end); (0, 0, 10, 5) gives (0, 4).
C3_LowClamp ==
    (/\ WindowReturned
     /\ Covered < window_size
     /\ md_min - Before < 0
     /\ md_max + After + (Before - md_min) <= md_total - 1) =>
        limits = Range(0, md_max + After + (Before - md_min))

C3_Witness ==
    /\ WindowReturned
    /\ WindowArgs = <<0, 0, 10, 5>>
    /\ limits = Range(0, 4)

\* C4: when the retrieved range already spans window_size positions the
\* arguments come back unchanged, whatever md_total; (2, 6, 20, 3) gives (2, 6).
C4_NoOp ==
    (WindowReturned /\ Covered >= window_size) =>
        limits = Range(md_min, md_max)

C4_Witness ==
    /\ WindowReturned
    /\ WindowArgs = <<2, 6, 20, 3>>
    /\ limits = Range(2, 6)

\* C5 as stated: (5, 5, 20, 4) gives (4, 6).
C5_OddRemainderExample ==
    (WindowReturned /\ WindowArgs = <<5, 5, 20, 4>>) =>
        limits = Range(4, 6)

\* C5 amended: (5, 5, 20, 4) gives (4, 7): of the 3 chunks to add, 1 goes
\* before and 2 after the retrieved chunk.
C5_OddRemainderAmended ==
    (WindowReturned /\ WindowArgs = <<5, 5, 20, 4>>) =>
        limits = Range(4, 7)

C5_Witness ==
    /\ WindowReturned
    /\ WindowArgs = <<5, 5, 20, 4>>
    /\ limits.end - limits.start + 1 = window_size

\* C6: for valid arguments with md_total <= window_size the whole group
\* (0, md_total - 1) is returned.
C6_WholeGroup ==
    (WindowReturned /\ ValidWindowArgs /\ md_total <= window_size) =>
        limits = Range(0, md_total - 1)

\* C7: arguments with md_min > md_max or md_total <= md_max end in an error,
\* not in a range.
C7_InconsistentRejected ==
    (WindowReturned /\ (md_min > md_max \/ md_total <= md_max)) =>
        limits.kind = "error"

\* C22: for valid arguments with covered < window_size where neither clamp
\* applies, the result is (min - before, max + after) with
\* before = (window_size - covered) // 2 and after = the rest, so that
\* 0 <= after - before <= 1: an odd extra chunk goes to the after side.
C22_RemainderSplit ==
    (/\ WindowReturned
     /\ ValidWindowArgs
     /\ Covered < window_size
     /\ md_min - Before >= 0
     /\ md_max + After <= md_total - 1) =>
        /\ limits = Range(md_min - Before, md_max + After)
        /\ 0 <= After - Before
        /\ After - Before <= 1

C22_Witness ==
    /\ WindowReturned
    /\ WindowArgs = <<4, 5, 10, 5>>
    /\ limits = Range(3, 7)

\* C23: for valid arguments with covered < window_size <= md_total the
\* returned range spans exactly window_size positions, whichever clamp
\* applied.
C23_WindowWidth ==
    (/\ WindowReturned
     /\ ValidWindowArgs
     /\ Covered < window_size
     /\ window_size <= md_total) =>
        /\ limits.kind = "range"
        /\ limits.end - limits.start + 1 = window_size

\* The end overran and its excess was moved to the start.
C23_Witness ==
    /\ WindowReturned
    /\ WindowArgs = <<9, 9, 10, 5>>
    /\ limits = Range(6, 10)


\* ------------------------------------------------------------- strings
\* A Python str is the sequence of its characters; '' is <<>>.
Alphabet == {"a", "b"}

Texts == UNION { [1..k -> Alphabet] : k \in 0..MaxTextLen }

\* s[:n]
Take(s, n) == SubSeq(s, 1, Min2(n, Len(s)))

\* s[n:]
Drop(s, n) == SubSeq(s, Min2(n, Len(s)) + 1, Len(s))

\* s.endswith(x)
EndsWith(s, x) ==
    /\ Len(x) <= Len(s)
    /\ SubSeq(s, Len(s) - Len(x) + 1, Len(s)) = x

\* ---------------------------------------------------------- _find_overlap
\* the loop of lines 303-306, from i downwards
RECURSIVE overlap_scan(_, _, _)
overlap_scan(chunk1, chunk2, i) ==
    IF i <= 0
    THEN 0
    ELSE IF EndsWith(chunk1, Take(chunk2, i))
         THEN i
         ELSE overlap_scan(chunk1, chunk2, i - 1)

\* Variant: the scan starts at len(chunk1), max_overlap is not applied.
_find_overlap_unbounded(chunk1, chunk2, max_overlap) ==
    overlap_scan(chunk1, chunk2, Len(chunk1))

_find_overlap(chunk1, chunk2, max_overlap) ==
    overlap_scan(chunk1, chunk2, Min2(Len(chunk1), max_overlap))

\* ---------------------------------------------------- _merge_overlap_chunks
\* One fetched chunk: its metadata entries and its text.
Chunk(id, overlap, text) ==
    [headers_chunk_id |-> id, chunk_overlap |-> overlap, page_content |-> text]

\* Variant: the chunks are taken in the order they were fetched.
sorted_chunks_as_given(chunks_data) == chunks_data

\* line 332: sorted(..., key=headers_chunk_id), a stable sort
RECURSIVE sorted_chunks(_)
sorted_chunks(chunks_data) ==
    IF chunks_data = <<>>
    THEN <<>>
    ELSE LET n == Len(chunks_data)
             x == chunks_data[n]
             front == sorted_chunks(SubSeq(chunks_data, 1, n - 1))
             k == Cardinality({ i \in 1..(n - 1) :
                      front[i].headers_chunk_id <= x.headers_chunk_id })
         IN  SubSeq(front, 1, k) \o <<x>> \o SubSeq(front, k + 1, n - 1)

\* lines 338-344: the parts appended for chunks i..n of the sorted list
RECURSIVE reconstructed_tail(_, _, _)
reconstructed_tail(sorted, i, max_overlap_size) ==
    IF i > Len(sorted)
    THEN <<>>
    ELSE Drop(sorted[i].page_content,
              _find_overlap(sorted[i - 1].page_content,
                            sorted[i].page_content,
                            max_overlap_size))
         \o reconstructed_tail(sorted, i + 1, max_overlap_size)

\* Variant: the declared overlap is cut from the first chunk as well.
_merge_overlap_chunks_trim_first(d) ==
    IF d = <<>>
    THEN <<>>
    ELSE LET sorted == sorted_chunks(d)
             max_overlap_size == sorted[1].chunk_overlap
         IN  Drop(sorted[1].page_content, max_overlap_size)
             \o reconstructed_tail(sorted, 2, max_overlap_size)

_merge_overlap_chunks(d) ==
    IF d = <<>>
    THEN <<>>
    ELSE LET sorted == sorted_chunks(d)
             max_overlap_size == sorted[1].chunk_overlap
         IN  sorted[1].page_content
             \o reconstructed_tail(sorted, 2, max_overlap_size)

\* Two positions give chunks in order, out of order and tied.
Positions == {0, 1}

ChunkSet ==
    { Chunk(id, o, t) : id \in Positions, o \in 0..MaxOverlap, t \in Texts }

\* "the cat sat" / "sat on the mat", "alpha" / "beta", and three chunks whose
\* middle one is swallowed by its overlap.
TheCatSat == <<"t","h","e"," ","c","a","t"," ","s","a","t">>

SatOnTheMat == <<"s","a","t"," ","o","n"," ","t","h","e"," ","m","a","t">>

ExampleDocs ==
    { << Chunk(0, 7, TheCatSat), Chunk(1, 7, SatOnTheMat) >>,
      << Chunk(1, 7, SatOnTheMat), Chunk(0, 7, TheCatSat) >>,
      << Chunk(0, 3, <<"a","l","p","h","a">>),
         Chunk(1, 3, <<"b","e","t","a">>) >>,
      << Chunk(0, 2, <<"a","b">>), Chunk(1, 2, <<"b">>),
         Chunk(2, 2, <<"a","b">>) >>,
      << Chunk(2, 2, <<"a","b">>), Chunk(0, 2, <<"a","b">>),
         Chunk(1, 2, <<"b","a">>) >> }

\* Three consecutive chunks of one group as the splitter tags them:
\* sequential positions and one declared overlap.
SplitterWindows ==
    { << Chunk(0, o, t[1]), Chunk(1, o, t[2]), Chunk(2, o, t[3]) >> :
        o \in 0..MaxOverlap, t \in [1..3 -> Texts] }

InitStitch ==
    /\ pc = "stitch_call"
    /\ \/ \E n \in 0..MaxChunks : docs \in [1..n -> ChunkSet]
       \/ docs \in SplitterWindows
       \/ docs \in ExampleDocs
    /\ stitched = <<>>
    /\ IdleWindow
    /\ IdleMerge
    /\ IdleFlat
    /\ IdleHier
    /\ IdleSearch
    /\ IdleRest

\* enriched_context_search line 207: the call and its return
MergeOverlapChunks ==
    /\ pc = "stitch_call"
    /\ stitched' = _merge_overlap_chunks(docs)
    /\ pc' = "stitch_return"
    /\ UNCHANGED <<docs, windowVars, mergeVars, flatVars, hierVars,
                   searchArgs, search_return, enrichVars, restVars>>

NextStitch == MergeOverlapChunks

SpecStitch == InitStitch /\ [][NextStitch]_vars

\* ------------------------------------------------- stitching: the claims
StitchReturned == pc = "stitch_return"

\* the greatest i in 1..min(len(prev), max_overlap) such that prev ends with
\* the first i characters of cur, or 0
LongestBoundedOverlap(prev, cur, max_overlap) ==
    LET S == { i \in 1..Min2(Len(prev), max_overlap) :
                 /\ i <= Len(cur)
                 /\ SubSeq(prev, Len(prev) - i + 1, Len(prev)) = SubSeq(cur, 1, i) }
    IN  IF S = {} THEN 0 ELSE CHOOSE i \in S : \A j \in S : j <= i

RECURSIVE StitchedFrom(_, _, _)
StitchedFrom(ordered, i, max_overlap) ==
    IF i > Len(ordered)
    THEN <<>>
    ELSE LET cur == ordered[i].page_content
             ov == LongestBoundedOverlap(ordered[i - 1].page_content, cur,
                                         max_overlap)
         IN  SubSeq(cur, ov + 1, Len(cur))
             \o StitchedFrom(ordered, i + 1, max_overlap)

ExpectedStitch(ordered) ==
    ordered[1].page_content
    \o StitchedFrom(ordered, 2, ordered[1].chunk_overlap)

\* the arrangements of docs in non-decreasing position order
PositionOrders ==
    { p \in [1..Len(docs) -> 1..Len(docs)] :
        /\ \A i, j \in 1..Len(docs) : i # j => p[i] # p[j]
        /\ \A i, j \in 1..Len(docs) :
              i < j => docs[p[i]].headers_chunk_id <= docs[p[j]].headers_chunk_id }

Reorderings ==
    { [i \in 1..Len(docs) |-> docs[p[i]]] :
        p \in { f \in [1..Len(docs) -> 1..Len(docs)] :
                  \A i, j \in 1..Len(docs) : i # j => f[i] # f[j] } }

DistinctPositions ==
    \A i, j \in 1..Len(docs) :
        i # j => docs[i].headers_chunk_id # docs[j].headers_chunk_id

UniformOverlap ==
    \A i, j \in 1..Len(docs) : docs[i].chunk_overlap = docs[j].chunk_overlap

\* C25: for chunks with pairwise distinct positions and one declared
\* overlap, the stitched string is the same for every order in which the
\* chunks are supplied.
C25_StitchOrderIndependent ==
    (StitchReturned /\ DistinctPositions /\ UniformOverlap) =>
        \A reordered \in Reorderings :
            _merge_overlap_chunks(reordered) = stitched

\* Three chunks supplied out of position order, stitched with an overlap
\* removed.
C25_Witness ==
    /\ StitchReturned
    /\ docs = << Chunk(2, 2, <<"a","b">>), Chunk(0, 2, <<"a","b">>),
                 Chunk(1, 2, <<"b","a">>) >>
    /\ stitched = <<"a","b","a","b">>

\* C9: no chunk gives the empty string; one chunk gives its text unchanged,
\* whatever its declared overlap.
C9_DegenerateStitch ==
    StitchReturned =>
        /\ (Len(docs) = 0 => stitched = <<>>)
        /\ (Len(docs) = 1 => stitched = docs[1].page_content)

C9_Witness ==
    /\ StitchReturned
    /\ Len(docs) = 1
    /\ docs[1].chunk_overlap > 0
    /\ Len(docs[1].page_content) >= docs[1].chunk_overlap
    /\ stitched = docs[1].page_content

\* ------------------------------------------------ _merge_unique_documents
DocIds == {"A", "B", "C"}

\* The collection stores one document per id: every hit of an id carries
\* the same content.
StoredContent(id) ==
    CASE id = "A" -> "alpha"
      [] id = "B" -> "beta"
      [] OTHER -> "gamma"

\* A langchain Document as the merge reads it: its id, and its content.
Documents == { [id |-> d, page_content |-> StoredContent(d)] : d \in DocIds }

\* lines 557-559: the inner loop over one query's results;
\* st = [seen |-> processed_docs, out |-> unique_documents]
RECURSIVE scan_query_results(_, _, _)
scan_query_results(query_results, i, st) ==
    IF i > Len(query_results)
    THEN st
    ELSE LET doc == query_results[i]
         IN  scan_query_results(query_results, i + 1,
                 IF doc.id \notin st.seen
                 THEN [seen |-> st.seen \cup {doc.id},
                       out |-> Append(st.out, doc)]
                 ELSE st)

\* line 556: the outer loop over the queries
RECURSIVE scan_queries(_, _, _)
scan_queries(results, q, st) ==
    IF q > Len(results)
    THEN st
    ELSE scan_queries(results, q + 1, scan_query_results(results[q], 1, st))

\* Variant: processed_docs is emptied at the start of every query.
RECURSIVE scan_queries_forgetful(_, _, _)
scan_queries_forgetful(results, q, st) ==
    IF q > Len(results)
    THEN st
    ELSE scan_queries_forgetful(results, q + 1,
             scan_query_results(results[q], 1, [seen |-> {}, out |-> st.out]))

_merge_unique_documents_per_query(results) ==
    scan_queries_forgetful(results, 1, [seen |-> {}, out |-> <<>>]).out

_merge_unique_documents(results) ==
    scan_queries(results, 1, [seen |-> {}, out |-> <<>>]).out

QueryResults == UNION { [1..k -> Documents] : k \in 0..MaxResults }

InitMerge ==
    /\ pc = "merge_call"
    /\ \E n \in 0..MaxQueries : multi_query_results \in [1..n -> QueryResults]
    /\ unique_documents = <<>>
    /\ IdleWindow
    /\ IdleStitch
    /\ IdleFlat
    /\ IdleHier
    /\ IdleSearch
    /\ IdleRest

\* _merge_multiquery_search_results line 533: the call and its return
MergeUniqueDocuments ==
    /\ pc = "merge_call"
    /\ unique_documents' = _merge_unique_documents(multi_query_results)
    /\ pc' = "merge_return"
    /\ UNCHANGED <<multi_query_results,
                   windowVars, stitchVars, flatVars, hierVars,
                   searchArgs, search_return, enrichVars, restVars>>

NextMerge == MergeUniqueDocuments

SpecMerge == InitMerge /\ [][NextMerge]_vars

\* ------------------------------------------------ flat merge: the claims
MergeReturned == pc = "merge_return"

\* the ids of the input, sub-list after sub-list
RECURSIVE InputIdsFrom(_)
InputIdsFrom(q) ==
    IF q > Len(multi_query_results)
    THEN <<>>
    ELSE [i \in 1..Len(multi_query_results[q]) |-> multi_query_results[q][i].id]
         \o InputIdsFrom(q + 1)

InputIds == InputIdsFrom(1)

FirstAppearance(id) ==
    CHOOSE i \in 1..Len(InputIds) :
        /\ InputIds[i] = id
        /\ \A j \in 1..(i - 1) : InputIds[j] # id

OutputIds == [i \in 1..Len(unique_documents) |-> unique_documents[i].id]

\* C10: the output holds every id of the input exactly once, and nothing
\* else, in the order of first appearance over the sub-lists.
C10_FlatMergeUnscored ==
    MergeReturned =>
        /\ \A i, j \in 1..Len(OutputIds) : i # j => OutputIds[i] # OutputIds[j]
        /\ { OutputIds[i] : i \in 1..Len(OutputIds) }
             = { InputIds[i] : i \in 1..Len(InputIds) }
        /\ \A i, j \in 1..Len(OutputIds) :
              i < j => FirstAppearance(OutputIds[i]) < FirstAppearance(OutputIds[j])

C10_Witness ==
    /\ MergeReturned
    /\ Len(multi_query_results) = 2
    /\ InputIds = <<"A", "B", "B", "C">>
    /\ Len(multi_query_results[1]) = 2
    /\ OutputIds = <<"A", "B", "C">>

\* --------------------------------------- _merge_multiquery_search_results
\* Relevance scores are exact numbers of tenths; np.mean is the exact
\* quotient sum/len, kept as a reduced fraction.
ScoreValues == {1, 3}

RECURSIVE GCD(_, _)
GCD(a, b) == IF b = 0 THEN a ELSE GCD(b, a % b)

RECURSIVE SumSeq(_)
SumSeq(xs) == IF xs = <<>> THEN 0 ELSE Head(xs) + SumSeq(Tail(xs))

Fraction(n, d) == [num |-> n \div GCD(n, d), den |-> d \div GCD(n, d)]

\* np.mean over a non-empty list of scores
Mean(scores) == Fraction(SumSeq(scores), Len(scores))

\* The two shapes of a search hit: a Document, or a (Document, score) tuple.
PlainItem(d) == [shape |-> "Document", doc |-> d, score |-> 0]

ScoredItem(d, sc) == [shape |-> "tuple", doc |-> d, score |-> sc]

\* What a call gives: a returned list, or the exception it raised.
Returned(list) == [kind |-> "list", items |-> list, error |-> "none"]

Raised(e) == [kind |-> "error", items |-> <<>>, error |-> e]

NoResult == [kind |-> "none", items |-> <<>>, error |-> "none"]

DocsOf(results) ==
    [q \in 1..Len(results) |->
        [i \in 1..Len(results[q]) |-> results[q][i].doc]]

HasShape(results, shape) ==
    \E q \in 1..Len(results) : \E i \in 1..Len(results[q]) :
        results[q][i].shape = shape

\* Variant: a (Document, score) pair is read as its document.
merge_unique_or_raise_coercing(results) ==
    Returned(_merge_unique_documents(DocsOf(results)))

\* _merge_unique_documents on what the dispatcher hands it: line 558 reads
\* doc.id of every item, and a tuple has no attribute id.
merge_unique_or_raise(results) ==
    IF HasShape(results, "tuple")
    THEN Raised("AttributeError")
    ELSE Returned(_merge_unique_documents(DocsOf(results)))

\* lines 585-589: doc_scores after the item, kept in insertion order
add_score(doc_scores, item) ==
    IF \E k \in 1..Len(doc_scores) : doc_scores[k].id = item.doc.id
    THEN [k \in 1..Len(doc_scores) |->
            IF doc_scores[k].id = item.doc.id
            THEN [doc_scores[k] EXCEPT !.scores = Append(@, item.score)]
            ELSE doc_scores[k]]
    ELSE Append(doc_scores,
                [id |-> item.doc.id, document |-> item.doc,
                 scores |-> <<item.score>>])

\* lines 585-589: the loops over the queries and their (doc, score) pairs
RECURSIVE collect_scores(_, _, _, _)
collect_scores(results, q, i, doc_scores) ==
    IF q > Len(results)
    THEN doc_scores
    ELSE IF i > Len(results[q])
         THEN collect_scores(results, q + 1, 1, doc_scores)
         ELSE collect_scores(results, q, i + 1,
                             add_score(doc_scores, results[q][i]))

\* line 592: DocumentWithScore is the alias typing.Tuple[Document, float]
\* (types.py line 10); calling it raises "Type Tuple cannot be instantiated".
DocumentWithScore(document, score) == Raised("TypeError")

\* lines 583-594; unpacking a Document into (doc, score) at line 586 raises
_merge_and_average_scores(results) ==
    IF HasShape(results, "Document")
    THEN Raised("ValueError")
    ELSE LET doc_scores == collect_scores(results, 1, 1, <<>>)
             built == [k \in 1..Len(doc_scores) |->
                          DocumentWithScore(doc_scores[k].document,
                                            Mean(doc_scores[k].scores))]
         IN  IF \E k \in 1..Len(built) : built[k].kind = "error"
             THEN Raised("TypeError")
             ELSE Returned(built)

\* line 527: next((lst for lst in multi_query_results if lst), None)
first_non_empty_list(results) ==
    IF \E q \in 1..Len(results) : results[q] # <<>>
    THEN results[CHOOSE q \in 1..Len(results) :
                    /\ results[q] # <<>>
                    /\ \A r \in 1..(q - 1) : results[r] = <<>>]
    ELSE <<>>

\* Variant: the type of the first item is read without the emptiness guard.
_merge_multiquery_search_results_unguarded(results) ==
    IF first_non_empty_list(results) = <<>>
    THEN Raised("IndexError")
    ELSE IF first_non_empty_list(results)[1].shape = "Document"
         THEN merge_unique_or_raise(results)
         ELSE _merge_and_average_scores(results)

_merge_multiquery_search_results(results) ==
    IF first_non_empty_list(results) = <<>>
    THEN Returned(<<>>)
    ELSE IF first_non_empty_list(results)[1].shape = "Document"
         THEN merge_unique_or_raise(results)
         ELSE _merge_and_average_scores(results)

\* Variant: the method consumes the lists it is given (pop from the front).
argument_after_merge_consumed(results) ==
    [q \in 1..Len(results) |-> <<>>]

\* The caller's multi_query_results once a merge is over: no statement of
\* _merge_unique_documents, _merge_and_average_scores or
\* _merge_search_results (which works on a deepcopy) assigns to the
\* argument, appends to one of its lists or writes to one of its dicts.
argument_after_merge(results) == results

ScoredIds == {"A", "B"}

\* Two hits of one id may carry different payloads (the store was updated
\* between the sub-queries).
Versions == {"v1", "v2"}

FlatItems ==
    { PlainItem(d) : d \in Documents }
    \cup { ScoredItem([id |-> a, page_content |-> v], sc) :
             a \in ScoredIds, v \in Versions, sc \in ScoreValues }

ScoredItems == { it \in FlatItems : it.shape = "tuple" }

\* hits[1..n] dealt to the queries by the non-decreasing map cut
SplitHits(hits, cut, nq) ==
    [q \in 1..nq |->
        SubSeq(hits,
               1 + Cardinality({ i \in DOMAIN cut : cut[i] < q }),
               Cardinality({ i \in DOMAIN cut : cut[i] <= q }))]

Cuts(n, nq) ==
    { c \in [1..n -> 1..nq] : \A i \in 1..(n - 1) : c[i] <= c[i + 1] }

\* [(A, 0.8), (B, 0.6)], [(A, 0.4)]
ExampleScored ==
    << << ScoredItem([id |-> "A", page_content |-> "v1"], 8),
          ScoredItem([id |-> "B", page_content |-> "v1"], 6) >>,
       << ScoredItem([id |-> "A", page_content |-> "v1"], 4) >> >>

InitFlat ==
    /\ pc = "flat_call"
    /\ \/ flat_input = <<>>
       \/ \E n \in 0..MaxHits : \E hits \in [1..n -> FlatItems] :
             \E cut \in Cuts(n, MaxQueries) :
                flat_input = SplitHits(hits, cut, MaxQueries)
       \/ \E n \in 0..MaxResults : \E L \in [1..n -> ScoredItems] :
             flat_input \in { <<L>>, <<L, L>> }
       \/ flat_input = ExampleScored
    /\ flat_result = NoResult
    /\ IdleWindow
    /\ IdleStitch
    /\ IdleMerge
    /\ IdleHier
    /\ IdleSearch
    /\ IdleRest

\* enriched_context_search line 164: the call and its return or exception
MergeMultiquerySearchResults ==
    /\ pc = "flat_call"
    /\ flat_result' = _merge_multiquery_search_results(flat_input)
    /\ flat_input' = argument_after_merge(flat_input)
    /\ pc' = "flat_return"
    /\ UNCHANGED <<windowVars, stitchVars, mergeVars, hierVars,
                   searchArgs, search_return, enrichVars, restVars>>

NextFlat == MergeMultiquerySearchResults

SpecFlat == InitFlat /\ [][NextFlat]_vars

\* ------------------------------------- flat merge dispatcher: the claims
FlatReturned == pc = "flat_return"

\* the hits of the input, sub-list after sub-list
RECURSIVE FlatHitsFrom(_)
FlatHitsFrom(q) ==
    IF q > Len(flat_input)
    THEN <<>>
    ELSE flat_input[q] \o FlatHitsFrom(q + 1)

FlatHits == FlatHitsFrom(1)

AllScored == \A i \in 1..Len(FlatHits) : FlatHits[i].shape = "tuple"

FirstHitOf(id) ==
    CHOOSE i \in 1..Len(FlatHits) :
        /\ FlatHits[i].doc.id = id
        /\ \A j \in 1..(i - 1) : FlatHits[j].doc.id # id

ScoresOf(id) ==
    LET idx == { i \in 1..Len(FlatHits) : FlatHits[i].doc.id = id }
    IN  [total |-> SumSeq([i \in 1..Len(FlatHits) |->
                              IF i \in idx THEN FlatHits[i].score ELSE 0]),
         count |-> Cardinality(idx)]

\* C11: a scored input gives one (document, mean score) entry per id, with
\* the first occurrence's document and the mean over every occurrence, in
\* order of first appearance.
C11_FlatMergeScored ==
    (FlatReturned /\ AllScored /\ Len(FlatHits) >= 1) =>
        /\ flat_result.kind = "list"
        /\ LET out == flat_result.items
           IN  /\ \A i, j \in 1..Len(out) :
                     i # j => out[i].doc.id # out[j].doc.id
               /\ { out[i].doc.id : i \in 1..Len(out) }
                    = { FlatHits[i].doc.id : i \in 1..Len(FlatHits) }
               /\ \A i \in 1..Len(out) :
                     /\ out[i].doc = FlatHits[FirstHitOf(out[i].doc.id)].doc
                     /\ out[i].score.num * ScoresOf(out[i].doc.id).count
                          = ScoresOf(out[i].doc.id).total * out[i].score.den
               /\ \A i, j \in 1..Len(out) :
                     i < j => FirstHitOf(out[i].doc.id) < FirstHitOf(out[j].doc.id)

\* C12: merging a scored list given twice yields the list that merging it
\* once yields.
C12_ScoredMergeIdempotent ==
    (/\ FlatReturned
     /\ AllScored
     /\ Len(flat_input) = 2
     /\ flat_input[1] = flat_input[2]) =>
        /\ flat_result.kind = "list"
        /\ flat_result = _merge_multiquery_search_results(<<flat_input[1]>>)

\* the shape the dispatcher decides on: that of the first hit
DecidedShape == FlatHits[1].shape

\* C13: an input holding a hit of the shape other than the one decided on
\* ends in an error, and no list is returned.
C13_ShapeMismatchRaises ==
    (/\ FlatReturned
     /\ Len(FlatHits) >= 1
     /\ \E i \in 1..Len(FlatHits) : FlatHits[i].shape # DecidedShape) =>
        /\ flat_result.kind = "error"
        /\ flat_result.items = <<>>

C13_Witness ==
    /\ FlatReturned
    /\ Len(FlatHits) >= 2
    /\ DecidedShape = "Document"
    /\ FlatHits[Len(FlatHits)].shape = "tuple"
    /\ flat_result.kind = "error"

\* ------------------------------------------------ _merge_search_results
\* One entry of a query result, as hierarchical_similarity_search builds it
\* (lines 282-295).
Hit(id, content, score) ==
    [id |-> id, content |-> content, relevance_score |-> score]

TableData(summary, columns) == [table_summary |-> summary, columns |-> columns]

\* a > b for np.mean values
Above(a, b) == a.num * b.den > b.num * a.den

\* lines 393-398: the dict comprehension over the first occurrence's columns;
\* a repeated key keeps its place and takes the later value
RECURSIVE seed_columns(_, _, _)
seed_columns(columns, i, acc) ==
    IF i > Len(columns)
    THEN acc
    ELSE LET c == columns[i]
             v == [id |-> c.id, content |-> c.content,
                   relevance_score |-> <<c.relevance_score>>]
         IN  seed_columns(columns, i + 1,
                 IF \E k \in 1..Len(acc) : acc[k].id = c.id
                 THEN [k \in 1..Len(acc) |->
                         IF acc[k].id = c.id THEN v ELSE acc[k]]
                 ELSE Append(acc, v))

\* lines 403-415: the columns of a later occurrence of a table
RECURSIVE merge_columns(_, _, _)
merge_columns(columns, i, acc) ==
    IF i > Len(columns)
    THEN acc
    ELSE LET c == columns[i]
         IN  merge_columns(columns, i + 1,
                 IF \E k \in 1..Len(acc) : acc[k].id = c.id
                 THEN [k \in 1..Len(acc) |->
                         IF acc[k].id = c.id
                         THEN [acc[k] EXCEPT !.relevance_score =
                                  Append(@, c.relevance_score)]
                         ELSE acc[k]]
                 ELSE Append(acc,
                         [id |-> c.id, content |-> c.content,
                          relevance_score |-> <<c.relevance_score>>]))

\* Variant: the score of an occurrence without columns is not recorded.
merge_table_skip_childless(merged, table_data) ==
    LET t == table_data.table_summary
    IN  IF \E k \in 1..Len(merged) : merged[k].id = t.id
        THEN [k \in 1..Len(merged) |->
                IF merged[k].id = t.id
                THEN [merged[k] EXCEPT
                        !.relevance_score =
                            IF table_data.columns = <<>>
                            THEN @
                            ELSE Append(@, t.relevance_score),
                        !.columns = merge_columns(table_data.columns, 1, @)]
                ELSE merged[k]]
        ELSE Append(merged,
                [id |-> t.id, content |-> t.content,
                 relevance_score |-> <<t.relevance_score>>,
                 columns |-> seed_columns(table_data.columns, 1, <<>>)])

\* lines 383-415: merged_results_dict after one table_data, in insertion order
merge_table(merged, table_data) ==
    LET t == table_data.table_summary
    IN  IF \E k \in 1..Len(merged) : merged[k].id = t.id
        THEN [k \in 1..Len(merged) |->
                IF merged[k].id = t.id
                THEN [merged[k] EXCEPT
                        !.relevance_score = Append(@, t.relevance_score),
                        !.columns = merge_columns(table_data.columns, 1, @)]
                ELSE merged[k]]
        ELSE Append(merged,
                [id |-> t.id, content |-> t.content,
                 relevance_score |-> <<t.relevance_score>>,
                 columns |-> seed_columns(table_data.columns, 1, <<>>)])

\* lines 381-415: the loops over the queries and their tables
RECURSIVE merge_tables(_, _, _, _)
merge_tables(results, q, i, merged) ==
    IF q > Len(results)
    THEN merged
    ELSE IF i > Len(results[q])
         THEN merge_tables(results, q + 1, 1, merged)
         ELSE merge_tables(results, q, i + 1,
                           merge_table(merged, results[q][i]))

\* the sort keys of lines 434 and 449
score_of(r) ==
    IF "table_summary" \in DOMAIN r
    THEN r.table_summary.relevance_score
    ELSE r.relevance_score

\* Variant: sorted(...) ascending, then reversed.
RECURSIVE sorted_ascending_reversed(_)
sorted_ascending_reversed(xs) ==
    IF xs = <<>>
    THEN <<>>
    ELSE LET n == Len(xs)
             x == xs[n]
             front == sorted_ascending_reversed(SubSeq(xs, 1, n - 1))
             k == Cardinality({ i \in 1..(n - 1) :
                      Above(score_of(front[i]), score_of(x)) })
         IN  SubSeq(front, 1, k) \o <<x>> \o SubSeq(front, k + 1, n - 1)

\* sorted(xs, key=..., reverse=True): descending, equal keys keep their order
RECURSIVE sorted_reverse(_)
sorted_reverse(xs) ==
    IF xs = <<>>
    THEN <<>>
    ELSE LET n == Len(xs)
             x == xs[n]
             front == sorted_reverse(SubSeq(xs, 1, n - 1))
             k == Cardinality({ i \in 1..(n - 1) :
                      ~Above(score_of(x), score_of(front[i])) })
         IN  SubSeq(front, 1, k) \o <<x>> \o SubSeq(front, k + 1, n - 1)

\* Variant: a table without columns is kept.
survives_always(table_result) == TRUE

\* line 419: a table is kept when it has a summary and columns
survives(table_result) == table_result.columns # <<>>

\* lines 422-444: the output record of one table
final_table(table_result) ==
    TableData(
        [content |-> table_result.content,
         relevance_score |-> Mean(table_result.relevance_score)],
        sorted_reverse(
            [k \in 1..Len(table_result.columns) |->
                [content |-> table_result.columns[k].content,
                 relevance_score |-> Mean(table_result.columns[k].relevance_score)]]))

\* lines 417-444: the records of the tables that are kept, in dict order
RECURSIVE final_tables(_, _)
final_tables(merged, k) ==
    IF k > Len(merged)
    THEN <<>>
    ELSE (IF survives(merged[k]) THEN <<final_table(merged[k])>> ELSE <<>>)
         \o final_tables(merged, k + 1)

_merge_search_results(results) ==
    sorted_reverse(final_tables(merge_tables(results, 1, 1, <<>>), 1))

TableIds == {"T1", "T2"}

ColumnIds == {"c1", "c2"}

\* the collections store one content per id
ContentOf(id) == id \o " content"

\* The hits of the sub-queries in the order they are found: a table hit
\* opens an occurrence (and, when new_query, a new sub-query), a column hit
\* belongs to the occurrence open.
TableRows ==
    { [kind |-> "table", id |-> t, score |-> sc, new_query |-> nq] :
        t \in TableIds, sc \in ScoreValues, nq \in BOOLEAN }

ColumnRows ==
    { [kind |-> "column", id |-> c, score |-> sc, new_query |-> FALSE] :
        c \in ColumnIds, sc \in ScoreValues }

AddRow(queries, row) ==
    LET nq == Len(queries)
    IN  IF row.kind = "table"
        THEN LET td == TableData(Hit(row.id, ContentOf(row.id), row.score), <<>>)
             IN  IF row.new_query
                 THEN Append(queries, <<td>>)
                 ELSE [queries EXCEPT ![nq] = Append(@, td)]
        ELSE LET nt == Len(queries[nq])
             IN  [queries EXCEPT ![nq][nt].columns =
                     Append(@, Hit(row.id, ContentOf(row.id), row.score))]

RECURSIVE BuildQueries(_, _, _)
BuildQueries(rows, i, queries) ==
    IF i > Len(rows)
    THEN queries
    ELSE BuildQueries(rows, i + 1, AddRow(queries, rows[i]))

InitHier ==
    /\ pc = "hier_call"
    /\ \/ \E n \in 0..MaxQueries : hier_input = [q \in 1..n |-> <<>>]
       \/ \E n \in 1..MaxRows : \E rows \in [1..n -> TableRows \cup ColumnRows] :
             /\ rows[1].kind = "table"
             /\ rows[1].new_query
             /\ hier_input = BuildQueries(rows, 1, <<>>)
    /\ hier_result = <<>>
    /\ IdleWindow
    /\ IdleStitch
    /\ IdleMerge
    /\ IdleFlat
    /\ IdleSearch
    /\ IdleRest

\* hierarchical_similarity_search line 300: the call and its return
MergeSearchResults ==
    /\ pc = "hier_call"
    /\ hier_result' = _merge_search_results(hier_input)
    /\ hier_input' = argument_after_merge(hier_input)
    /\ pc' = "hier_return"
    /\ UNCHANGED <<windowVars, stitchVars, mergeVars, flatVars,
                   searchArgs, search_return, enrichVars, restVars>>

NextHier == MergeSearchResults

SpecHier == InitHier /\ [][NextHier]_vars

\* ---------------------------------------- hierarchical merge: the claims
HierReturned == pc = "hier_return"

\* the table occurrences of the input, sub-query after sub-query
RECURSIVE OccurrencesFrom(_)
OccurrencesFrom(q) ==
    IF q > Len(hier_input)
    THEN <<>>
    ELSE hier_input[q] \o OccurrencesFrom(q + 1)

Occurrences == OccurrencesFrom(1)

OccurrencesOf(t) ==
    { i \in 1..Len(Occurrences) : Occurrences[i].table_summary.id = t }

\* the column hits found under table t, in the order they are scanned
RECURSIVE ColumnHitsFrom(_, _)
ColumnHitsFrom(t, i) ==
    IF i > Len(Occurrences)
    THEN <<>>
    ELSE (IF Occurrences[i].table_summary.id = t
          THEN Occurrences[i].columns
          ELSE <<>>)
         \o ColumnHitsFrom(t, i + 1)

ColumnHits(t) == ColumnHitsFrom(t, 1)

HasChildren(t) == ColumnHits(t) # <<>>

TableOf(record) ==
    CHOOSE t \in TableIds : ContentOf(t) = record.table_summary.content

ColumnOf(record) ==
    CHOOSE c \in ColumnIds : ContentOf(c) = record.content

OutputTables == { TableOf(hier_result[k]) : k \in 1..Len(hier_result) }

\* f is the mean of the scores of the hits xs[i], i \in idx
IsMeanOf(f, xs, idx) ==
    f.num * Cardinality(idx)
      = f.den * SumSeq([i \in 1..Len(xs) |->
                           IF i \in idx THEN xs[i].relevance_score ELSE 0])

\* C15: an output parent's score is the mean over every occurrence of its
\* id, those without children included; a parent with children in one
\* occurrence and none in another is output with the children found.
C15_ParentScoreOverAllOccurrences ==
    HierReturned =>
        /\ \A k \in 1..Len(hier_result) :
              LET t == TableOf(hier_result[k])
                  summaries == [i \in 1..Len(Occurrences) |->
                                   Occurrences[i].table_summary]
              IN  IsMeanOf(hier_result[k].table_summary.relevance_score,
                           summaries, OccurrencesOf(t))
        /\ \A t \in TableIds :
              (/\ \E i \in OccurrencesOf(t) : Occurrences[i].columns # <<>>
               /\ \E i \in OccurrencesOf(t) : Occurrences[i].columns = <<>>) =>
                  \E k \in 1..Len(hier_result) :
                      /\ TableOf(hier_result[k]) = t
                      /\ { ColumnOf(hier_result[k].columns[j]) :
                             j \in 1..Len(hier_result[k].columns) }
                           = { ColumnHits(t)[j].id : j \in 1..Len(ColumnHits(t)) }

C15_Witness ==
    /\ HierReturned
    /\ Len(Occurrences) = 2
    /\ Occurrences[1].table_summary.id = "T1"
    /\ Occurrences[1].table_summary.relevance_score = 1
    /\ Occurrences[1].columns # <<>>
    /\ Occurrences[2].table_summary.id = "T1"
    /\ Occurrences[2].table_summary.relevance_score = 3
    /\ Occurrences[2].columns = <<>>
    /\ Len(hier_result) = 1
    /\ hier_result[1].table_summary.relevance_score = Fraction(2, 1)

\* C16: the output holds exactly the parents of which some occurrence has a
\* child, each once, and each with a non-empty children list.
C16_SurvivingParents ==
    HierReturned =>
        /\ OutputTables = { t \in TableIds : HasChildren(t) }
        /\ Len(hier_result) = Cardinality(OutputTables)
        /\ \A k \in 1..Len(hier_result) : hier_result[k].columns # <<>>

C16_Witness ==
    /\ HierReturned
    /\ OccurrencesOf("T1") # {}
    /\ ~HasChildren("T1")
    /\ Cardinality(OccurrencesOf("T2")) = 2
    /\ OutputTables = {"T2"}

FirstSeenTable(t) == CHOOSE i \in OccurrencesOf(t) : \A j \in OccurrencesOf(t) : i <= j

FirstSeenColumn(t, c) ==
    CHOOSE i \in 1..Len(ColumnHits(t)) :
        /\ ColumnHits(t)[i].id = c
        /\ \A j \in 1..(i - 1) : ColumnHits(t)[j].id # c

\* C17: parents come in non-increasing order of averaged score, and so do
\* the children of each parent; equal scores keep first-seen order.
C17_SortedStable ==
    HierReturned =>
        /\ \A i, j \in 1..Len(hier_result) :
              i < j =>
                LET a == hier_result[i]
                    b == hier_result[j]
                IN  /\ ~Above(score_of(b), score_of(a))
                    /\ score_of(a) = score_of(b) =>
                          FirstSeenTable(TableOf(a)) < FirstSeenTable(TableOf(b))
        /\ \A k \in 1..Len(hier_result) :
              LET t == TableOf(hier_result[k])
                  cols == hier_result[k].columns
              IN  \A i, j \in 1..Len(cols) :
                     i < j =>
                       /\ ~Above(cols[j].relevance_score, cols[i].relevance_score)
                       /\ cols[i].relevance_score = cols[j].relevance_score =>
                             FirstSeenColumn(t, ColumnOf(cols[i]))
                               < FirstSeenColumn(t, ColumnOf(cols[j]))

C17_Witness ==
    /\ HierReturned
    /\ Len(hier_result) = 2
    /\ score_of(hier_result[1]) = score_of(hier_result[2])
    /\ TableOf(hier_result[1]) = "T2"
    /\ Len(Occurrences) = 2

\* C24: for each surviving parent, each child's averaged score is the mean of
\* the scores of every occurrence of that child id under that parent across
\* all sub-queries, and its content that of its first occurrence, whether the
\* occurrences lie in the parent's first occurrence or in later ones, a child
\* id listed more than once in one occurrence's children list included.
C24_ChildAggregation ==
    HierReturned =>
        \A k \in 1..Len(hier_result) :
            LET t == TableOf(hier_result[k])
                cols == hier_result[k].columns
                hits == ColumnHits(t)
            IN  /\ Len(cols) = Cardinality({ hits[i].id : i \in 1..Len(hits) })
                /\ \A j \in 1..Len(cols) :
                      LET c == ColumnOf(cols[j])
                      IN  /\ IsMeanOf(cols[j].relevance_score, hits,
                                      { i \in 1..Len(hits) : hits[i].id = c })
                          /\ cols[j].content
                                 = hits[FirstSeenColumn(t, c)].content

\* --------------------------------------- search and enriched_context_search
Max2(a, b) == IF a > b THEN a ELSE b

\* What a call returned: one list, or one list per query.
Flat(list) == [kind |-> "flat", value |-> list]

PerQuery(lists) == [kind |-> "per_query", value |-> lists]

NotReturned == [kind |-> "none", value |-> <<>>]

StoredChunk(key, id, total, overlap, text) ==
    [metadata_key |-> key, headers_chunk_id |-> id,
     headers_comb_total |-> total, chunk_overlap |-> overlap,
     page_content |-> text]

\* The collection: group g1 split in three chunks, group g2 in two, tagged by
\* the splitter with positions 0.. and the group's chunk count.
Collection ==
    << StoredChunk("g1", 0, 3, 1, <<"a", "b">>),
       StoredChunk("g1", 1, 3, 1, <<"b", "c">>),
       StoredChunk("g1", 2, 3, 1, <<"c", "d">>),
       StoredChunk("g2", 0, 2, 1, <<"x", "y">>),
       StoredChunk("g2", 1, 2, 1, <<"y", "z">>) >>

\* A search hit: the document's id, its metadata without the chunk keys
\* (_get_metadata_key_value_sorted), and the two chunk keys the loop reads.
Retrieved(id, key, chunk_id, total) ==
    [id |-> id, metadata_key |-> key, headers_chunk_id |-> chunk_id,
     headers_comb_total |-> total]

\* Three tagged chunks, one document without a position and one without a
\* group size.
Retrievable ==
    { Retrieved("g1-0", "g1", 0, 3), Retrieved("g1-2", "g1", 2, 3),
      Retrieved("g2-0", "g2", 0, 2),
      Retrieved("n1", "g1", None, 3), Retrieved("n2", "g2", 1, None) }

WindowSizes == {1, 3}

\* base.py lines 323-353: merge_results is not read; one list for a str,
\* one list per query for a list of queries
search(single, results, merge) ==
    IF single THEN Flat(results[1]) ELSE PerQuery(results)

\* Variant: the chunk position alone admits a document to the accumulators.
accumulate_position_only(dict, document) ==
    LET key == document.metadata_key
        chunk_id == document.headers_chunk_id
        total_chunks == document.headers_comb_total
    IN  IF chunk_id # None
        THEN IF \E k \in 1..Len(dict) : dict[k].metadata_key = key
             THEN [k \in 1..Len(dict) |->
                     IF dict[k].metadata_key = key
                     THEN [dict[k] EXCEPT !.min_id = Min2(@, chunk_id),
                                          !.max_id = Max2(@, chunk_id),
                                          !.total_chunks = total_chunks]
                     ELSE dict[k]]
             ELSE Append(dict, [metadata_key |-> key, min_id |-> chunk_id,
                                max_id |-> chunk_id,
                                total_chunks |-> total_chunks])
        ELSE dict

\* lines 175-188: processed_results_dict after one document, in insertion
\* order; a new entry starts from min = inf, max = -inf
accumulate(dict, document) ==
    LET key == document.metadata_key
        chunk_id == document.headers_chunk_id
        total_chunks == document.headers_comb_total
    IN  IF chunk_id # None /\ total_chunks # None
        THEN IF \E k \in 1..Len(dict) : dict[k].metadata_key = key
             THEN [k \in 1..Len(dict) |->
                     IF dict[k].metadata_key = key
                     THEN [dict[k] EXCEPT !.min_id = Min2(@, chunk_id),
                                          !.max_id = Max2(@, chunk_id),
                                          !.total_chunks = total_chunks]
                     ELSE dict[k]]
             ELSE Append(dict, [metadata_key |-> key, min_id |-> chunk_id,
                                max_id |-> chunk_id,
                                total_chunks |-> total_chunks])
        ELSE dict

\* lines 192-201: the range asked of the collection for one group
window_request(chunk_data, size) ==
    LET lim == _get_chunk_limits(chunk_data.min_id, chunk_data.max_id,
                                 chunk_data.total_chunks, size)
    IN  [metadata_key |-> chunk_data.metadata_key,
         min_limit |-> lim.start, max_limit |-> lim.end]

\* lines 203-205: get(where = {"$and": conditions})
get(request) ==
    LET hit(c) == /\ c.metadata_key = request.metadata_key
                  /\ c.headers_chunk_id >= request.min_limit
                  /\ c.headers_chunk_id <= request.max_limit
        found == SelectSeq(Collection, hit)
    IN  [i \in 1..Len(found) |->
            Chunk(found[i].headers_chunk_id, found[i].chunk_overlap,
                  found[i].page_content)]

\* lines 190-207: one request per accumulated group
window_requests(dict, size) ==
    [k \in 1..Len(dict) |-> window_request(dict[k], size)]

\* lines 190-207: output_enriched_chunks
enriched_chunks(dict, size) ==
    [k \in 1..Len(dict) |->
        _merge_overlap_chunks(get(window_request(dict[k], size)))]

\* The arguments of a call: a str query (one result list) or a list of up
\* to MaxQueries queries, and what the store finds for each.
InitSearchArgs ==
    /\ is_single_query \in BOOLEAN
    /\ merge_results \in BOOLEAN
    /\ context_window_size \in WindowSizes
    /\ \E n \in 0..MaxHits : \E hits \in [1..n -> Retrievable] :
          \E nq \in 0..MaxQueries : \E cut \in Cuts(n, nq) :
             /\ is_single_query => nq = 1
             /\ backend_results = SplitHits(hits, cut, nq)

IdleEnriched ==
    /\ search_results = <<>>
    /\ query_index = 0
    /\ doc_index = 0
    /\ processed_results_dict = <<>>
    /\ fetches = <<>>
    /\ multi_query_output = <<>>
    /\ enriched_return = NotReturned

InitSearch ==
    /\ pc = "search_call"
    /\ InitSearchArgs
    /\ search_return = NotReturned
    /\ IdleEnriched
    /\ IdleWindow
    /\ IdleStitch
    /\ IdleMerge
    /\ IdleFlat
    /\ IdleHier
    /\ IdleRest

\* base.py lines 323-353
Search ==
    /\ pc = "search_call"
    /\ search_return' = search(is_single_query, backend_results, merge_results)
    /\ pc' = "search_return"
    /\ UNCHANGED <<searchArgs, enrichVars,
                   windowVars, stitchVars, mergeVars, flatVars, hierVars,
                   restVars>>

NextSearch == Search

SpecSearch == InitSearch /\ [][NextSearch]_vars

InitEnriched ==
    /\ pc = "enriched_call"
    /\ InitSearchArgs
    /\ search_return = NotReturned
    /\ IdleEnriched
    /\ IdleWindow
    /\ IdleStitch
    /\ IdleMerge
    /\ IdleFlat
    /\ IdleHier
    /\ IdleRest

\* line 164 on the documents of lines 157-161
merged_search_results(results) ==
    _merge_multiquery_search_results(
        [q \in 1..Len(results) |->
            [i \in 1..Len(results[q]) |-> PlainItem(results[q][i])]])

\* lines 148-172: the search, the early return, the wrapping and the merge
EnrichedContextSearch ==
    /\ pc = "enriched_call"
    /\ LET found == search(is_single_query, backend_results, FALSE)
           lists == IF is_single_query THEN <<found.value>> ELSE found.value
           merged == merged_search_results(lists)
       IN  IF found.value = <<>>
           THEN /\ enriched_return' = Flat(<<>>)
                /\ pc' = "enriched_return"
                /\ UNCHANGED <<search_results, query_index, doc_index>>
           ELSE IF merge_results /\ ~is_single_query /\ merged.kind = "error"
           THEN /\ enriched_return' = [kind |-> merged.error, value |-> <<>>]
                /\ pc' = "enriched_return"
                /\ UNCHANGED <<search_results, query_index, doc_index>>
           ELSE /\ search_results' =
                       IF merge_results /\ ~is_single_query
                       THEN <<merged.items>>
                       ELSE lists
                /\ query_index' = 1
                /\ doc_index' = 1
                /\ pc' = "enriched_scan"
                /\ UNCHANGED enriched_return
    /\ UNCHANGED <<processed_results_dict, fetches, multi_query_output,
                   searchArgs, search_return,
                   windowVars, stitchVars, mergeVars, flatVars, hierVars,
                   restVars>>

\* lines 174-188: one document of the current query_results
ScanDocument ==
    /\ pc = "enriched_scan"
    /\ query_index <= Len(search_results)
    /\ doc_index <= Len(search_results[query_index])
    /\ processed_results_dict' =
           accumulate(processed_results_dict,
                      search_results[query_index][doc_index])
    /\ doc_index' = doc_index + 1
    /\ UNCHANGED <<pc, search_results, query_index, fetches,
                   multi_query_output, enriched_return,
                   searchArgs, search_return,
                   windowVars, stitchVars, mergeVars, flatVars, hierVars,
                   restVars>>

\* lines 190-209: the windows of every accumulated group, fetched and
\* stitched, appended as this query's output
EnrichQuery ==
    /\ pc = "enriched_scan"
    /\ query_index <= Len(search_results)
    /\ doc_index > Len(search_results[query_index])
    /\ fetches' = fetches \o window_requests(processed_results_dict,
                                             context_window_size)
    /\ multi_query_output' =
           Append(multi_query_output,
                  enriched_chunks(processed_results_dict,
                                  context_window_size))
    /\ query_index' = query_index + 1
    /\ doc_index' = 1
    /\ UNCHANGED <<pc, search_results, processed_results_dict,
                   enriched_return, searchArgs, search_return,
                   windowVars, stitchVars, mergeVars, flatVars, hierVars,
                   restVars>>

\* lines 211-215
EnrichedReturn ==
    /\ pc = "enriched_scan"
    /\ query_index > Len(search_results)
    /\ enriched_return' =
           IF is_single_query \/ merge_results
           THEN Flat(multi_query_output[1])
           ELSE PerQuery(multi_query_output)
    /\ pc' = "enriched_return"
    /\ UNCHANGED <<search_results, query_index, doc_index,
                   processed_results_dict, fetches, multi_query_output,
                   searchArgs, search_return,
                   windowVars, stitchVars, mergeVars, flatVars, hierVars,
                   restVars>>

NextEnriched ==
    \/ EnrichedContextSearch
    \/ ScanDocument
    \/ EnrichQuery
    \/ EnrichedReturn

SpecEnriched == InitEnriched /\ [][NextEnriched]_vars

\* The three consolidation paths side by side.
InitConsolidation == InitFlat \/ InitHier \/ InitEnriched

NextConsolidation == NextFlat \/ NextHier \/ NextEnriched

SpecConsolidation == InitConsolidation /\ [][NextConsolidation]_vars

\* ------------------------------- search and enriched search: the claims
EnrichedReturned == pc = "enriched_return"

AllEmpty(results) == \A q \in 1..Len(results) : results[q] = <<>>

\* C14: when every sub-query returns an empty list, or there are no
\* sub-queries, the flat merge returns an empty list, the hierarchical merge
\* returns an empty list and enriched_context_search with merge_results=True
\* returns an empty list, none of them raising an error.
C14_NoResultsIsEmpty ==
    /\ (FlatReturned /\ AllEmpty(flat_input))
           => flat_result = Returned(<<>>)
    /\ (HierReturned /\ AllEmpty(hier_input))
           => hier_result = <<>>
    /\ (EnrichedReturned /\ merge_results /\ AllEmpty(backend_results))
           => enriched_return = Flat(<<>>)

\* enriched_context_search has returned for a list of MaxQueries queries
\* that all found nothing, merge_results=True.
C14_Witness ==
    /\ EnrichedReturned
    /\ merge_results
    /\ ~is_single_query
    /\ Len(backend_results) = MaxQueries
    /\ AllEmpty(backend_results)
    /\ enriched_return = Flat(<<>>)

Groupable(document) ==
    /\ document.headers_chunk_id # None
    /\ document.headers_comb_total # None

AtDocument ==
    /\ pc = "enriched_scan"
    /\ query_index <= Len(search_results)
    /\ doc_index <= Len(search_results[query_index])

\* A document with both chunk keys and this metadata key has been scanned.
ScannedGroupable(key) ==
    \E q \in 1..Len(search_results) : \E i \in 1..Len(search_results[q]) :
        /\ q < query_index \/ (q = query_index /\ i < doc_index)
        /\ Groupable(search_results[q][i])
        /\ search_results[q][i].metadata_key = key

ScannedUngroupable(key) ==
    \E q \in 1..Len(search_results) : \E i \in 1..Len(search_results[q]) :
        /\ q < query_index \/ (q = query_index /\ i < doc_index)
        /\ ~Groupable(search_results[q][i])
        /\ search_results[q][i].metadata_key = key

\* C18: a retrieved chunk whose metadata lacks headers_chunk_id or
\* headers_comb_total never creates or changes a group accumulator: scanning
\* it leaves every accumulator, fetch and output as it was, and every
\* accumulator and every range fetch is for a group of which a chunk with
\* both keys was scanned.
C18_UngroupableIgnored ==
    /\ [](/\ \A k \in 1..Len(processed_results_dict) :
                ScannedGroupable(processed_results_dict[k].metadata_key)
          /\ \A f \in 1..Len(fetches) :
                ScannedGroupable(fetches[f].metadata_key))
    /\ [][(AtDocument /\ ~Groupable(search_results[query_index][doc_index]))
            => /\ processed_results_dict' = processed_results_dict
               /\ fetches' = fetches
               /\ multi_query_output' = multi_query_output]_vars

\* The call returned after scanning a chunk without position or group size
\* whose group has no accumulator, while another group was fetched.
C18_Witness ==
    /\ EnrichedReturned
    /\ fetches # <<>>
    /\ \E key \in {"g1", "g2"} :
          /\ ScannedUngroupable(key)
          /\ \A k \in 1..Len(processed_results_dict) :
                processed_results_dict[k].metadata_key # key

\* The positions of the i-th query's own hits in a group.
OwnPositions(q, key) ==
    { backend_results[q][i].headers_chunk_id :
        i \in { j \in 1..Len(backend_results[q]) :
                  /\ Groupable(backend_results[q][j])
                  /\ backend_results[q][j].metadata_key = key } }

GroupsHitBy(q) == { key \in {"g1", "g2"} : OwnPositions(q, key) # {} }

GroupSize(key) ==
    Collection[CHOOSE i \in 1..Len(Collection) :
                   Collection[i].metadata_key = key].headers_comb_total

\* The string of a group reconstructed from one query's hits only.
OwnString(q, key) ==
    LET ps == OwnPositions(q, key)
        own == [metadata_key |-> key,
                min_id |-> CHOOSE p \in ps : \A o \in ps : p <= o,
                max_id |-> CHOOSE p \in ps : \A o \in ps : p >= o,
                total_chunks |-> GroupSize(key)]
    IN  _merge_overlap_chunks(get(window_request(own, context_window_size)))

\* C19: called with a list of n queries and merge_results=False,
\* enriched_context_search returns n inner lists, the i-th holding exactly
\* one reconstructed string per distinct group hit by the i-th query's own
\* results, built from the min/max positions of that query's hits only.
C19_PerQueryIsolation ==
    (EnrichedReturned /\ ~is_single_query /\ ~merge_results)
        => /\ Len(enriched_return.value) = Len(backend_results)
           /\ \A q \in 1..Len(backend_results) :
                 /\ Len(enriched_return.value[q])
                        = Cardinality(GroupsHitBy(q))
                 /\ { enriched_return.value[q][k] :
                        k \in 1..Len(enriched_return.value[q]) }
                        = { OwnString(q, key) : key \in GroupsHitBy(q) }

SearchReturned == pc = "search_return"

\* C20: search called with a list of queries and merge_results=True returns
\* a single flat merged list in which each document id appears at most once,
\* not one list per query.
C20_SearchMerges ==
    (SearchReturned /\ ~is_single_query /\ merge_results)
        => \/ search_return.value = <<>>
           \/ /\ search_return.kind = "flat"
              /\ \A i, j \in 1..Len(search_return.value) :
                    search_return.value[i].id = search_return.value[j].id
                        => i = j

\* ------------------------------------------ hierarchical_similarity_search
IdleOld ==
    /\ IdleWindow
    /\ IdleStitch
    /\ IdleMerge
    /\ IdleFlat
    /\ IdleHier
    /\ IdleSearch

\* lines 270-299: the tables of one query, those without column hits left out
query_result(tables_results) ==
    LET has_columns(table) == table.columns # <<>>
    IN  SelectSeq(tables_results, has_columns)

\* lines 341-353: one table record without its ids
without_ids(table_data) ==
    TableData(
        [content |-> table_data.table_summary.content,
         relevance_score |-> table_data.table_summary.relevance_score],
        [j \in 1..Len(table_data.columns) |->
            [content |-> table_data.columns[j].content,
             relevance_score |-> table_data.columns[j].relevance_score]])

\* lines 329-359 on a list of per-query lists (the argument of line 304 is
\* never a list of dicts): a list of length one is taken for a single query
_remove_ids(results) ==
    IF results = <<>>
    THEN PerQuery(results)
    ELSE LET updated_results ==
                 [q \in 1..Len(results) |->
                     [i \in 1..Len(results[q]) |-> without_ids(results[q][i])]]
         IN  IF Len(results) = 1
             THEN Flat(updated_results[1])
             ELSE PerQuery(updated_results)

\* lines 254-305
hierarchical_similarity_search(single, found, merge) ==
    LET results == [q \in 1..Len(found) |-> query_result(found[q])]
    IN  IF ~single /\ merge
        THEN Flat(_merge_search_results(results))
        ELSE _remove_ids(results)

\* A str query or a list of queries, and the table and column hits of each;
\* a query may find nothing.
InitHSearch ==
    /\ pc = "hsearch_call"
    /\ is_single_query \in BOOLEAN
    /\ merge_results \in BOOLEAN
    /\ \/ \E n \in 0..MaxQueries :
             /\ is_single_query => n = 1
             /\ found_tables = [q \in 1..n |-> <<>>]
       \/ \E n \in 1..MaxHits : \E rows \in [1..n -> TableRows \cup ColumnRows] :
             \E pad \in BOOLEAN :
                /\ rows[1].kind = "table"
                /\ rows[1].new_query
                /\ LET built == BuildQueries(rows, 1, <<>>)
                   IN  /\ found_tables =
                              IF pad THEN Append(built, <<>>) ELSE built
                       /\ is_single_query => Len(found_tables) = 1
    /\ hierarchical_return = [kind |-> "none", value |-> <<>>]
    /\ context_window_size = 0
    /\ backend_results = <<>>
    /\ search_return = [kind |-> "none", value |-> <<>>]
    /\ IdleEnriched
    /\ IdleWindow
    /\ IdleStitch
    /\ IdleMerge
    /\ IdleFlat
    /\ IdleHier
    /\ IdleOverlap
    /\ IdleUpsert
    /\ IdleGraphs

HierarchicalSimilaritySearch ==
    /\ pc = "hsearch_call"
    /\ hierarchical_return' =
           hierarchical_similarity_search(is_single_query, found_tables,
                                          merge_results)
    /\ pc' = "hsearch_return"
    /\ UNCHANGED <<found_tables, searchArgs, search_return, enrichVars,
                   windowVars, stitchVars, mergeVars, flatVars, hierVars,
                   overlapVars, upsertVars, graphVars>>

NextHSearch == HierarchicalSimilaritySearch

SpecHSearch == InitHSearch /\ [][NextHSearch]_vars

HSearchReturned == pc = "hsearch_return"

\* The i-th query's own table records, as the result lists them.
OwnRecords(q) ==
    [i \in 1..Len(query_result(found_tables[q])) |->
        without_ids(query_result(found_tables[q])[i])]

\* C21: for every list of n >= 1 queries with merge_results=False the
\* result is a list of exactly n inner lists, the i-th holding the i-th
\* query's own table records (also when n = 1); a flat list of table records
\* is returned only for a single string query or when merge_results=True.
C21_HierarchicalReturnShape ==
    HSearchReturned =>
        /\ (~is_single_query /\ ~merge_results /\ Len(found_tables) >= 1) =>
              /\ hierarchical_return.kind = "per_query"
              /\ Len(hierarchical_return.value) = Len(found_tables)
              /\ \A q \in 1..Len(found_tables) :
                    hierarchical_return.value[q] = OwnRecords(q)
        /\ hierarchical_return.kind = "flat" =>
              (is_single_query \/ merge_results)

\* ------------------------------------------------- _find_overlap as a call
\* Two texts and a bound; the bound may exceed either length.
InitOverlap ==
    /\ pc = "overlap_call"
    /\ prev_chunk_content \in Texts
    /\ current_chunk_content \in Texts
    /\ overlap_bound \in 0..MaxTextLen
    /\ overlap_size = 0
    /\ IdleOld
    /\ IdleHSearch
    /\ IdleUpsert
    /\ IdleGraphs

\* line 342: the call and its return
FindOverlap ==
    /\ pc = "overlap_call"
    /\ overlap_size' = _find_overlap(prev_chunk_content, current_chunk_content,
                                     overlap_bound)
    /\ pc' = "overlap_return"
    /\ UNCHANGED <<prev_chunk_content, current_chunk_content, overlap_bound,
                   oldVars, hsearchVars, upsertVars, graphVars>>

NextOverlap == FindOverlap

SpecOverlap == InitOverlap /\ [][NextOverlap]_vars

OverlapReturned == pc = "overlap_return"

\* C26: the value r returned by _find_overlap satisfies
\* 0 <= r <= min(len(chunk1), len(chunk2), max_overlap), and when r > 0 the
\* last r characters of chunk1 equal the first r characters of chunk2.
C26_TrueOverlapLength ==
    OverlapReturned =>
        /\ 0 <= overlap_size
        /\ overlap_size <= Len(prev_chunk_content)
        /\ overlap_size <= Len(current_chunk_content)
        /\ overlap_size <= overlap_bound
        /\ overlap_size > 0 =>
              SubSeq(prev_chunk_content,
                     Len(prev_chunk_content) - overlap_size + 1,
                     Len(prev_chunk_content))
                = SubSeq(current_chunk_content, 1, overlap_size)

\* ------------------------------------------------ upsert_hierarchical_data
\* constants.py lines 83-98: the members of the enum MdlKey
MdlKeyMembers ==
    { "DATABASE", "SCHEMAS", "TABLES", "COLUMNS", "NAME", "DESCRIPTION",
      "PRIMARY_KEY", "FOREIGN_KEY", "DATA_TYPE", "REFERENCE", "TABLE_ID",
      "DATABASE_NAME", "SCHEMA_NAME", "TABLE_NAME", "COLUMN_NAME",
      "COLUMN_DATA_TYPE" }

\* hierarchical.py line 138: the parameters delete_by_file_name accepts
delete_by_file_name_parameters == {"file_name"}

FileNames == {"f1", "f2"}

\* A document: stored before the call or provided by it; file_name "" when
\* the metadata has none.
Doc(id, file_name, origin) ==
    [id |-> id, file_name |-> file_name, origin |-> origin]

StoredTables == { Doc("t1", "f1", "stored"), Doc("t2", "f2", "stored") }

StoredColumns == { Doc("c1", "f1", "stored"), Doc("c2", "f2", "stored") }

ProvidedTables ==
    { Doc("nt1", "f1", "provided"), Doc("nt2", "f2", "provided"),
      Doc("nt3", "", "provided") }

ProvidedColumns ==
    { Doc("nc1", "f1", "provided"), Doc("nc2", "f2", "provided") }

UpsertReturnedValue(deleted, added) ==
    [kind |-> "returned", error |-> "none", deleted |-> deleted,
     added |-> added]

UpsertRaised(e) ==
    [kind |-> "error", error |-> e, deleted |-> <<{}, {}>>,
     added |-> <<{}, {}>>]

\* lines 202-206: MdlKey.FILE_NAME is evaluated for the first table document
file_names_of(tables_documents) ==
    IF tables_documents # <<>> /\ "FILE_NAME" \notin MdlKeyMembers
    THEN [error |-> "AttributeError", names |-> {}]
    ELSE [error |-> "none",
          names |-> { tables_documents[i].file_name :
                        i \in 1..Len(tables_documents) } \ {""}]

\* lines 138-154 and base.py 394-405, called with the keyword of line 208:
\* the documents each collection loses
delete_by_file_name(keyword, names, tables, columns) ==
    IF keyword \notin delete_by_file_name_parameters
    THEN [error |-> "TypeError", deleted |-> <<{}, {}>>]
    ELSE [error |-> "none",
          deleted |-> << { d \in tables : d.file_name \in names },
                         { d \in columns : d.file_name \in names } >>]

\* lines 200-211: the outcome and the two collections after the call
upsert_hierarchical_data(documents, tables, columns) ==
    LET file_names == file_names_of(documents[1])
        deleted_docs == delete_by_file_name("file_names", file_names.names,
                                            tables, columns)
        added == << { documents[1][i] : i \in 1..Len(documents[1]) },
                    { documents[2][i] : i \in 1..Len(documents[2]) } >>
    IN  IF file_names.error # "none"
        THEN [out |-> UpsertRaised(file_names.error),
              tables |-> tables, columns |-> columns]
        ELSE IF deleted_docs.error # "none"
        THEN [out |-> UpsertRaised(deleted_docs.error),
              tables |-> tables, columns |-> columns]
        ELSE [out |-> UpsertReturnedValue(
                          deleted_docs.deleted,
                          << { d.id : d \in added[1] },
                             { d.id : d \in added[2] } >>),
              tables |-> (tables \ deleted_docs.deleted[1]) \cup added[1],
              columns |-> (columns \ deleted_docs.deleted[2]) \cup added[2]]

InitUpsert ==
    /\ pc = "upsert_call"
    /\ tables_collection \in SUBSET StoredTables
    /\ columns_collection \in SUBSET StoredColumns
    /\ \E n \in 0..MaxDocs : \E m \in 0..MaxDocs :
          \E ts \in [1..n -> ProvidedTables] :
             \E cs \in [1..m -> ProvidedColumns] :
                upsert_input = <<ts, cs>>
    /\ upsert_return = [kind |-> "none", error |-> "none",
                        deleted |-> <<{}, {}>>, added |-> <<{}, {}>>]
    /\ IdleOld
    /\ IdleHSearch
    /\ IdleOverlap
    /\ IdleGraphs

\* lines 200-211
UpsertHierarchicalData ==
    /\ pc = "upsert_call"
    /\ LET r == upsert_hierarchical_data(upsert_input, tables_collection,
                                         columns_collection)
       IN  /\ upsert_return' = r.out
           /\ tables_collection' = r.tables
           /\ columns_collection' = r.columns
    /\ pc' = "upsert_return"
    /\ UNCHANGED <<upsert_input, oldVars, hsearchVars, overlapVars,
                   graphVars>>

NextUpsert == UpsertHierarchicalData

SpecUpsert == InitUpsert /\ [][NextUpsert]_vars

UpsertReturned == pc = "upsert_return"

ProvidedFileNames ==
    { upsert_input[1][i].file_name : i \in 1..Len(upsert_input[1]) } \ {""}

\* C27: upsert_hierarchical_data completes and returns (deleted, added ids);
\* afterwards neither collection holds a formerly stored document whose
\* file_name is among those of the provided tables, and both hold every
\* provided document.
C27_UpsertReplacesByFileName ==
    UpsertReturned =>
        /\ upsert_return.kind = "returned"
        /\ \A d \in tables_collection \cup columns_collection :
              d.origin = "stored" => d.file_name \notin ProvidedFileNames
        /\ \A i \in 1..Len(upsert_input[1]) :
              upsert_input[1][i] \in tables_collection
        /\ \A i \in 1..Len(upsert_input[2]) :
              upsert_input[2][i] \in columns_collection

\* ------------------------------------------------- merging a second time
\* The caller merges the lists it still holds once more.
MergeMultiquerySearchResultsAgain ==
    /\ pc = "flat_return"
    /\ flat_result' = _merge_multiquery_search_results(flat_input)
    /\ flat_input' = argument_after_merge(flat_input)
    /\ pc' = "flat_again"
    /\ UNCHANGED <<windowVars, stitchVars, mergeVars, hierVars,
                   searchArgs, search_return, enrichVars, restVars>>

MergeSearchResultsAgain ==
    /\ pc = "hier_return"
    /\ hier_result' = _merge_search_results(hier_input)
    /\ hier_input' = argument_after_merge(hier_input)
    /\ pc' = "hier_again"
    /\ UNCHANGED <<windowVars, stitchVars, mergeVars, flatVars,
                   searchArgs, search_return, enrichVars, restVars>>

InitRemerge == InitFlat \/ InitHier

NextRemerge ==
    \/ MergeMultiquerySearchResults
    \/ MergeMultiquerySearchResultsAgain
    \/ MergeSearchResults
    \/ MergeSearchResultsAgain

SpecRemerge == InitRemerge /\ [][NextRemerge]_vars

MaxRetries == 3

\* What the try block of lines 158-179 can do: fail before the query is
\* sent, fail on the query, or succeed.
Executions == {"table_info_error", "execute_error", "executed"}

ValidatorState ==
    [retries |-> retries,
     valid_query_execution |-> valid_query_execution,
     query_validation_error_msg |-> query_validation_error_msg]

\* lines 124-179 with the limit tested one pass late
coherence_grading_node_late_limit(state, limit, coherent, execution) ==
    LET n == (IF state.retries = None THEN 0 ELSE state.retries) + 1
    IN  IF n > limit + 1
        THEN [state |-> [state EXCEPT
                            !.valid_query_execution = "False",
                            !.query_validation_error_msg = "limit_reached"],
              graded |-> FALSE, executed |-> FALSE]
        ELSE IF ~coherent
        THEN [state |-> [state EXCEPT
                            !.query_validation_error_msg = "error_coherence",
                            !.retries = n],
              graded |-> TRUE, executed |-> FALSE]
        ELSE IF execution = "executed"
        THEN [state |-> [state EXCEPT !.valid_query_execution = "True"],
              graded |-> TRUE, executed |-> TRUE]
        ELSE [state |-> [state EXCEPT
                            !.query_validation_error_msg = "error_db",
                            !.retries = n],
              graded |-> TRUE, executed |-> execution = "execute_error"]

\* lines 124-179: the keys the node writes, whether it invoked the coherence
\* grader (line 141) and whether it sent the query (line 163)
coherence_grading_node(state, limit, coherent, execution) ==
    LET n == (IF state.retries = None THEN 0 ELSE state.retries) + 1
    IN  IF n > limit
        THEN [state |-> [state EXCEPT
                            !.valid_query_execution = "False",
                            !.query_validation_error_msg = "limit_reached"],
              graded |-> FALSE, executed |-> FALSE]
        ELSE IF ~coherent
        THEN [state |-> [state EXCEPT
                            !.query_validation_error_msg = "error_coherence",
                            !.retries = n],
              graded |-> TRUE, executed |-> FALSE]
        ELSE IF execution = "executed"
        THEN [state |-> [state EXCEPT !.valid_query_execution = "True"],
              graded |-> TRUE, executed |-> TRUE]
        ELSE [state |-> [state EXCEPT
                            !.query_validation_error_msg = "error_db",
                            !.retries = n],
              graded |-> TRUE, executed |-> execution = "execute_error"]

\* line 19 and the input state: retries and valid_query_execution unset;
\* line 233: START -> check_db_connection
InitValidator ==
    /\ pc = "validator"
    /\ validator_node = "check_db_connection"
    /\ max_retries \in 0..MaxRetries
    /\ retries = None
    /\ valid_query_execution = "None"
    /\ query_validation_error_msg = "None"
    /\ db = "None"
    /\ grader_invocations = 0
    /\ query_executions = 0
    /\ IdleOld
    /\ IdleHSearch
    /\ IdleOverlap
    /\ IdleUpsert
    /\ IdleChunk

\* lines 88-111 and the edge of lines 234-241
CheckDbConnection ==
    /\ pc = "validator"
    /\ validator_node = "check_db_connection"
    /\ \E connected \in BOOLEAN :
          IF connected
          THEN /\ db' = "connected"
               /\ validator_node' = "tables_extraction"
               /\ UNCHANGED valid_query_execution
          ELSE /\ db' = "None"
               /\ valid_query_execution' = "False"
               /\ validator_node' = "END"
    /\ UNCHANGED <<pc, max_retries, retries, query_validation_error_msg,
                   grader_invocations, query_executions, oldVars,
                   hsearchVars, overlapVars, upsertVars, chunkVars>>

\* lines 114-121 and the edge of line 242
TablesExtraction ==
    /\ pc = "validator"
    /\ validator_node = "tables_extraction"
    /\ validator_node' = "validation"
    /\ UNCHANGED <<pc, max_retries, retries, valid_query_execution,
                   query_validation_error_msg, db, grader_invocations,
                   query_executions, oldVars, hsearchVars, overlapVars,
                   upsertVars, chunkVars>>

\* lines 124-179 and the edge of lines 243-250
Validation ==
    /\ pc = "validator"
    /\ validator_node = "validation"
    /\ \E coherent \in BOOLEAN : \E execution \in Executions :
          LET r == coherence_grading_node(ValidatorState, max_retries,
                                          coherent, execution)
          IN  /\ retries' = r.state.retries
              /\ valid_query_execution' = r.state.valid_query_execution
              /\ query_validation_error_msg' =
                     r.state.query_validation_error_msg
              /\ grader_invocations' =
                     grader_invocations + (IF r.graded THEN 1 ELSE 0)
              /\ query_executions' =
                     query_executions + (IF r.executed THEN 1 ELSE 0)
              /\ validator_node' =
                     IF r.state.valid_query_execution = "None"
                     THEN "query_correction" ELSE "END"
    /\ UNCHANGED <<pc, max_retries, db, oldVars, hsearchVars, overlapVars,
                   upsertVars, chunkVars>>

\* lines 182-205 (only sql_query is written) and the edge of line 251
QueryCorrection ==
    /\ pc = "validator"
    /\ validator_node = "query_correction"
    /\ validator_node' = "tables_extraction"
    /\ UNCHANGED <<pc, max_retries, retries, valid_query_execution,
                   query_validation_error_msg, db, grader_invocations,
                   query_executions, oldVars, hsearchVars, overlapVars,
                   upsertVars, chunkVars>>

NextValidator ==
    \/ CheckDbConnection
    \/ TablesExtraction
    \/ Validation
    \/ QueryCorrection

SpecValidator == InitValidator /\ [][NextValidator]_vars

\* The compiled graph runs the next node whenever there is one.
SpecValidatorFair == SpecValidator /\ WF_vars(NextValidator)

\* The validation node is about to run with the limit used up.
LimitExhausted ==
    /\ validator_node = "validation"
    /\ (IF retries = None THEN 0 ELSE retries) + 1 > max_retries

MaxIterations == 4

\* agent_decision.py lines 224-226: a limit of 1 or less is refused
IterationLimits == 2..MaxIterations

\* what the summariser may write
Summaries == {"s1", "s2"}

\* nodes/constants.py: the value set_output_ko writes
NoRelevantContent == <<"[NO RELEVANT CONTENT]">>

\* generators.py lines 113-145: the keys the node writes
summarize_chunk_node(iterations, summary) ==
    [chunk_summary |-> <<summary>>,
     generate_iterations |->
         (IF iterations = None THEN 0 ELSE iterations) + 1]

\* agent_decision.py lines 398-456 with the limit tested by > instead of >=
grade_chunk_summary_generation_late(iterations, limit, grounded, addresses) ==
    LET n == IF iterations = None THEN 0 ELSE iterations
    IN  IF n > limit
        THEN [next |-> "set_output_ko", grounded |-> "not asked",
              addresses |-> "not asked"]
        ELSE IF ~grounded
        THEN [next |-> "summarize_chunk", grounded |-> "False",
              addresses |-> "not asked"]
        ELSE IF addresses
        THEN [next |-> "__end__", grounded |-> "True", addresses |-> "True"]
        ELSE [next |-> "summarize_chunk", grounded |-> "True",
              addresses |-> "False"]

\* agent_decision.py lines 398-456: the step the edge returns and the
\* grader answers it was returned on; a grader that was not invoked is
\* "not asked" (the answer grader is invoked only for a grounded summary)
grade_chunk_summary_generation(iterations, limit, grounded, addresses) ==
    LET n == IF iterations = None THEN 0 ELSE iterations
    IN  IF n >= limit
        THEN [next |-> "set_output_ko", grounded |-> "not asked",
              addresses |-> "not asked"]
        ELSE IF ~grounded
        THEN [next |-> "summarize_chunk", grounded |-> "False",
              addresses |-> "not asked"]
        ELSE IF addresses
        THEN [next |-> "__end__", grounded |-> "True", addresses |-> "True"]
        ELSE [next |-> "summarize_chunk", grounded |-> "True",
              addresses |-> "False"]

\* The graph's input: generate_iterations unset or zero, no summary yet.
InitChunk ==
    /\ pc = "chunk"
    /\ chunk_node = "START"
    /\ max_iterations \in IterationLimits
    /\ generate_iterations \in {None, 0}
    /\ chunk_summary = <<>>
    /\ generation = <<>>
    /\ summarize_runs = 0
    /\ hallucination_gradings = 0
    /\ answer_gradings = 0
    /\ summary_decision = NoDecision
    /\ IdleOld
    /\ IdleHSearch
    /\ IdleOverlap
    /\ IdleUpsert
    /\ IdleValidator

\* aux_graphs.py lines 180-187 with agent_decision.py lines 124-155
GradeRetrievedChunk ==
    /\ pc = "chunk"
    /\ chunk_node = "START"
    /\ \E relevant \in BOOLEAN :
          chunk_node' = IF relevant THEN "summarize_chunk"
                        ELSE "set_output_ko"
    /\ UNCHANGED <<pc, max_iterations, generate_iterations, chunk_summary,
                   generation, summarize_runs, hallucination_gradings,
                   answer_gradings, summary_decision, oldVars, hsearchVars,
                   overlapVars, upsertVars, validatorVars>>

\* the summarize_chunk node and the edge of aux_graphs.py lines 188-196
SummarizeChunk ==
    /\ pc = "chunk"
    /\ chunk_node = "summarize_chunk"
    /\ \E summary \in Summaries : \E grounded \in BOOLEAN :
          \E addresses \in BOOLEAN :
             LET written == summarize_chunk_node(generate_iterations, summary)
                 decision ==
                     grade_chunk_summary_generation(
                         written.generate_iterations, max_iterations,
                         grounded, addresses)
             IN  /\ chunk_summary' = written.chunk_summary
                 /\ generate_iterations' = written.generate_iterations
                 /\ summarize_runs' = summarize_runs + 1
                 /\ summary_decision' = decision
                 /\ hallucination_gradings' =
                        hallucination_gradings
                        + (IF decision.grounded = "not asked" THEN 0 ELSE 1)
                 /\ answer_gradings' =
                        answer_gradings
                        + (IF decision.addresses = "not asked" THEN 0 ELSE 1)
                 /\ chunk_node' = IF decision.next = "__end__" THEN "END"
                                  ELSE decision.next
    /\ UNCHANGED <<pc, max_iterations, generation, oldVars, hsearchVars,
                   overlapVars, upsertVars, validatorVars>>

\* the set_output_ko node and the edge of aux_graphs.py line 197
SetOutputKo ==
    /\ pc = "chunk"
    /\ chunk_node = "set_output_ko"
    /\ generation' = NoRelevantContent
    /\ chunk_node' = "END"
    /\ UNCHANGED <<pc, max_iterations, generate_iterations, chunk_summary,
                   summarize_runs, hallucination_gradings, answer_gradings,
                   summary_decision, oldVars, hsearchVars, overlapVars,
                   upsertVars, validatorVars>>

NextChunk ==
    \/ GradeRetrievedChunk
    \/ SummarizeChunk
    \/ SetOutputKo

SpecChunk == InitChunk /\ [][NextChunk]_vars

\* The compiled graph runs the next node whenever there is one.
SpecChunkFair == SpecChunk /\ WF_vars(NextChunk)

\* C30: for a chunk graded relevant, summarize_chunk runs at most
\* max_iterations times whatever the hallucination and answer graders
\* answer; once generate_iterations >= max_iterations the summary edge routes
\* to the KO node without consulting the graders; the edge returns the end
\* step only when the summary is both grounded and addresses the query; and
\* every run reaches END.
C30_BoundedSummarisation ==
    /\ [](summarize_runs <= max_iterations)
    /\ [][(chunk_node = "summarize_chunk"
           /\ generate_iterations' >= max_iterations) =>
             /\ chunk_node' = "set_output_ko"
             /\ summary_decision'.next = "set_output_ko"
             /\ hallucination_gradings' = hallucination_gradings
             /\ answer_gradings' = answer_gradings]_vars
    /\ [](summary_decision.next = "__end__" =>
             /\ summary_decision.grounded = "True"
             /\ summary_decision.addresses = "True")
    /\ <>(chunk_node = "END")

\* With the default limit of 3 the summary was written three times, graded
\* twice (once as grounded but off the question), and the run ended in the
\* KO node's output.
C30_Witness ==
    /\ chunk_node = "END"
    /\ max_iterations = 3
    /\ summarize_runs = 3
    /\ hallucination_gradings = 2
    /\ answer_gradings >= 1
    /\ generation = NoRelevantContent

====
